---- MODULE Spec2Model ----
(***************************************************************************)
(* Proxy lifecycle manager of scripts/manage.py (ClaudeSetupManager):      *)
(* the env file, the sentinel pid file, the OS process table, and the      *)
(* step-by-step control flow of the start and stop commands, including     *)
(* the readiness polling loop and the copilot authentication loop.         *)
(***************************************************************************)
EXTENDS Integers, FiniteSets, Sequences, TLC

\* ------------------------------------------------------------------ bounds

\* Process ids the OS hands out are 1..MaxPid.
MaxPid == 2

\* Callers (shells running manage.py) that exist; Spec lets only caller 1 run.
NumCallers == 2

\* Unanswered health probes per start in the two-caller specification.
MaxRaceRetries == 2

\* Unanswered health probes and refused chat requests per start in the
\* specification of the master key.
MaxKeyRetries == 1

\* ------------------------------------------------------- program constants

\* for _ in range(30): the readiness loop's iteration budget.
ReadyBudget == 30

\* for _ in range(300): the copilot authentication loop's iteration budget.
AuthBudget == 300

Pids == 1..MaxPid
Callers == 1..NumCallers

\* Status codes an HTTP server can answer with (a representative of each
\* branch of the code, and 500 for "any other status").
HttpStatuses == {200, 401, 403, 500}

\* ------------------------------------------------------------- env record

\* Marker of a key that the env file does not hold.
Absent == "<absent>"

\* env_vars.get(key, default)
Get(env, key, default) == IF env[key] = Absent THEN default ELSE env[key]

\* str.strip() on the values the model draws.
Strip(s) ==
    CASE s = "  " -> ""
      [] s = " key1 " -> "key1"
      [] s = " config.ollama.yaml " -> "config.ollama.yaml"
      [] OTHER -> s

\* The keys of the env file that manage.py reads or writes.
EnvKeys == {"PROFILE", "LITELLM_CONFIG", "LITELLM_MASTER_KEY", "LITELLM_PORT",
            "GCP_PROJECT_ID", "CLOUD_ML_REGION", "ANTHROPIC_MODEL",
            "ANTHROPIC_SMALL_FAST_MODEL"}

\* An env record that holds the given values for the proxy keys and no
\* other key.
ProxyEnv(profile, config, key, port) ==
    [k \in EnvKeys |->
        CASE k = "PROFILE" -> profile
          [] k = "LITELLM_CONFIG" -> config
          [] k = "LITELLM_MASTER_KEY" -> key
          [] k = "LITELLM_PORT" -> port
          [] OTHER -> Absent]

\* set_key(env_file, key, value) for each key of updates.
SetKeys(rec, updates) ==
    [k \in EnvKeys |-> IF k \in DOMAIN updates THEN updates[k] ELSE rec[k]]

\* The values the env file can hold for each key.
ProfileValues == {Absent, "gcp", "copilot", "ollama"}
ConfigValues == {Absent, " config.ollama.yaml "}
KeyValues == {Absent, "  ", " key1 "}

\* The env files the model starts from: every combination of the values
\* above, with the ollama configuration named only under the ollama profile.
EnvRecords ==
    {ProxyEnv(profile, config, key, Absent) :
        profile \in ProfileValues, config \in ConfigValues,
        key \in KeyValues} \ 
    {ProxyEnv(profile, " config.ollama.yaml ", key, Absent) :
        profile \in ProfileValues \ {"ollama"}, key \in KeyValues}

EmptyEnv == [k \in EnvKeys |-> Absent]

\* A file holding an env record, and no file at the path.
EnvFileOf(rec) == [exists |-> TRUE, vars |-> rec]
NoFile == [exists |-> FALSE, vars |-> EmptyEnv]

\* sample.env as the repository ships it: the placeholder master key that
\* ensure_master_key looks for, with or without a profile line.
SampleRecords ==
    {ProxyEnv(profile, Absent, "your-litellm-master-key", Absent) :
        profile \in {Absent, "copilot"}}

\* The proxy configuration files that can exist under litellm/.
ConfigDirs == {{"config.copilot.yaml"}, {"config.ollama.yaml"}}

\* The sentinel /tmp/litellm.pid: whether it exists, whether its stripped
\* text isdigit(), and int() of it.
NoSentinel == [exists |-> FALSE, digits |-> FALSE, pid |-> 0]
JunkSentinel == [exists |-> TRUE, digits |-> FALSE, pid |-> 0]
PidSentinel(p) == [exists |-> TRUE, digits |-> TRUE, pid |-> p]

\* ~/.claude/settings.json: json.dumps({"env": env}), or no file. The env
\* object is a function from the keys it holds to their values.
NoKeys == [k \in {} |-> ""]
NoDoc == [exists |-> FALSE, env |-> NoKeys]
DocOf(env) == [exists |-> TRUE, env |-> env]

\* Mutant: the new env object is merged into the one on disk.
write_claude_settings_Merge(old, env) == DocOf(env @@ old.env)

\* write_claude_settings: the file is rewritten from the env object alone.
write_claude_settings(old, env) == DocOf(env)

\* The optional entry of a settings env object: present when value is
\* truthy.
Optional(key, value) == IF value # "" THEN (key :> value) ELSE NoKeys

\* Mutant: the model keys are always written.
build_gcp_native_settings_env_AlwaysModels(env_vars) ==
    [CLAUDE_CODE_USE_VERTEX |-> "1",
     ANTHROPIC_VERTEX_PROJECT_ID |-> Get(env_vars, "GCP_PROJECT_ID", ""),
     CLOUD_ML_REGION |-> Get(env_vars, "CLOUD_ML_REGION", "global"),
     CLAUDE_CODE_DISABLE_NONESSENTIAL_TRAFFIC |-> "true",
     ANTHROPIC_MODEL |-> Get(env_vars, "ANTHROPIC_MODEL", ""),
     ANTHROPIC_SMALL_FAST_MODEL |->
         Get(env_vars, "ANTHROPIC_SMALL_FAST_MODEL", "")]

\* build_gcp_native_settings_env: the env object of native Vertex mode.
build_gcp_native_settings_env(env_vars) ==
    LET project_id == Get(env_vars, "GCP_PROJECT_ID", "")
        cloud_region == Get(env_vars, "CLOUD_ML_REGION", "global")
        model == Get(env_vars, "ANTHROPIC_MODEL", "")
        small_fast_model == Get(env_vars, "ANTHROPIC_SMALL_FAST_MODEL", "")
    IN  [CLAUDE_CODE_USE_VERTEX |-> "1",
         ANTHROPIC_VERTEX_PROJECT_ID |-> project_id,
         CLOUD_ML_REGION |-> cloud_region,
         CLAUDE_CODE_DISABLE_NONESSENTIAL_TRAFFIC |-> "true"]
        @@ Optional("ANTHROPIC_MODEL", model)
        @@ Optional("ANTHROPIC_SMALL_FAST_MODEL", small_fast_model)

\* Mutant: the port is the default whatever the record says.
build_proxy_settings_env_DefaultPort(env_vars) ==
    [ANTHROPIC_BASE_URL |-> "http://localhost:4000",
     ANTHROPIC_AUTH_TOKEN |-> Get(env_vars, "LITELLM_MASTER_KEY", ""),
     ANTHROPIC_MODEL |-> "sonnet",
     ANTHROPIC_DEFAULT_OPUS_MODEL |-> "opus",
     ANTHROPIC_DEFAULT_SONNET_MODEL |-> "sonnet",
     ANTHROPIC_DEFAULT_HAIKU_MODEL |-> "haiku",
     CLAUDE_CODE_SUBAGENT_MODEL |-> "sonnet",
     CLAUDE_CODE_DISABLE_EXPERIMENTAL_BETAS |-> "1",
     CLAUDE_CODE_DISABLE_NONESSENTIAL_TRAFFIC |-> "true"]

\* build_proxy_settings_env: the env object of proxy mode.
build_proxy_settings_env(env_vars) ==
    LET port == Get(env_vars, "LITELLM_PORT", "4000")
        base_url == "http://localhost:" \o port
        master_key == Get(env_vars, "LITELLM_MASTER_KEY", "")
    IN  [ANTHROPIC_BASE_URL |-> base_url,
         ANTHROPIC_AUTH_TOKEN |-> master_key,
         ANTHROPIC_MODEL |-> "sonnet",
         ANTHROPIC_DEFAULT_OPUS_MODEL |-> "opus",
         ANTHROPIC_DEFAULT_SONNET_MODEL |-> "sonnet",
         ANTHROPIC_DEFAULT_HAIKU_MODEL |-> "haiku",
         CLAUDE_CODE_SUBAGENT_MODEL |-> "sonnet",
         CLAUDE_CODE_DISABLE_EXPERIMENTAL_BETAS |-> "1",
         CLAUDE_CODE_DISABLE_NONESSENTIAL_TRAFFIC |-> "true"]

\* ------------------------------------------------------------------ state

VARIABLES
    envFile,      \* .devcontainer/.env: EnvFileOf(record), or NoFile
    sampleFile,   \* .devcontainer/sample.env: EnvFileOf(record), or NoFile
    configFiles,  \* names of the files that exist under litellm/
    sentinel,     \* /tmp/litellm.pid
    settings,     \* ~/.claude/settings.json: DocOf(env object), or NoDoc
    logFile,      \* /tmp/litellm.log exists
    alive,        \* OS process table: pids of the proxy processes running
    pc,           \* per caller: position in the command it runs
    cmd,          \* per caller: the command ("none", "start", "stop")
    outcome,      \* per caller: how its last command ended
    envVars,      \* per caller: env_vars, the record start_litellm loaded
    pidRead,      \* per caller: stop_litellm's pid, as read from the sentinel
    child,        \* per caller: process.pid of its Popen, 0 when there is none
    i,            \* per caller: readiness iterations completed (the loop
                  \* variable, rebound when the authentication loop starts)
    j,            \* per caller: authentication iterations completed
    inflight,     \* per caller: the /health request it is waiting on
    healthSeen,   \* per caller: the unauthenticated probe got an HTTP response
    readiness,    \* per caller: how the readiness loop ended, "pending" before
    authStatus,   \* per caller: auth_resp.status_code, 0 when there is none
    authProbes,   \* per caller: authenticated probes issued in this command
    posts,        \* per caller: POST /v1/messages requests issued
    postOk,       \* per caller: a POST /v1/messages was answered 200
    signals,      \* per caller: pids it sent SIGTERM to in this command
    reported      \* per caller: the messages it printed in this command

shared == <<envFile, sampleFile, configFiles, sentinel, settings, logFile,
            alive>>
vars == <<envFile, sampleFile, configFiles, sentinel, settings, logFile, alive,
          pc, cmd, outcome, envVars, pidRead, child, i, j, inflight,
          healthSeen, readiness, authStatus, authProbes, posts, postOk,
          signals, reported>>

\* ----------------------------------------------------------- small helpers

\* print_step / print_success / print_warning / print_error
Say(c, msg) == reported' = [reported EXCEPT ![c] = @ \cup {msg}]

\* raise SystemExit(1)
Fatal(c) == /\ pc' = [pc EXCEPT ![c] = "idle"]
            /\ outcome' = [outcome EXCEPT ![c] = "fatal"]

\* the command returns normally
Return(c) == /\ pc' = [pc EXCEPT ![c] = "idle"]
             /\ outcome' = [outcome EXCEPT ![c] = "ok"]

\* an exception nobody catches: traceback, non-zero exit
Crash(c) == /\ pc' = [pc EXCEPT ![c] = "idle"]
            /\ outcome' = [outcome EXCEPT ![c] = "crash"]

Goto(c, label) == /\ pc' = [pc EXCEPT ![c] = label]
                  /\ UNCHANGED outcome

\* ---------------------------------------------------------------- run_cli

Commands == {"start", "stop", "status"}

SetupCommands == {"setup_gcp", "setup_copilot"}

Entry(command) ==
    CASE command = "start" -> "start_load"
      [] command = "stop" -> "stop_check"
      [] command = "status" -> "status_load"
      [] command = "setup_gcp" -> "gcp_profile"
      [] command = "setup_copilot" -> "copilot_profile"

\* A fresh manage.py process begins the handler of the command.
Dispatch(c, command) ==
    /\ pc[c] = "idle"
    /\ cmd' = [cmd EXCEPT ![c] = command]
    /\ pc' = [pc EXCEPT ![c] = Entry(command)]
    /\ outcome' = [outcome EXCEPT ![c] = "running"]
    /\ envVars' = [envVars EXCEPT ![c] = EmptyEnv]
    /\ pidRead' = [pidRead EXCEPT ![c] = NoSentinel]
    /\ child' = [child EXCEPT ![c] = 0]
    /\ i' = [i EXCEPT ![c] = 0]
    /\ j' = [j EXCEPT ![c] = 0]
    /\ inflight' = [inflight EXCEPT ![c] = "none"]
    /\ healthSeen' = [healthSeen EXCEPT ![c] = FALSE]
    /\ readiness' = [readiness EXCEPT ![c] = "pending"]
    /\ authStatus' = [authStatus EXCEPT ![c] = 0]
    /\ authProbes' = [authProbes EXCEPT ![c] = 0]
    /\ posts' = [posts EXCEPT ![c] = 0]
    /\ postOk' = [postOk EXCEPT ![c] = FALSE]
    /\ signals' = [signals EXCEPT ![c] = {}]
    /\ reported' = [reported EXCEPT ![c] = {}]
    /\ UNCHANGED shared

\* run_cli dispatches start, stop or status.
Invoke(c) == \E command \in Commands : Dispatch(c, command)

\* run_cli dispatches setup gcp or setup copilot.
InvokeSetup(c) == \E command \in SetupCommands : Dispatch(c, command)

\* --------------------------------------------------------- stop_litellm

\* Where stop_litellm returns to: the stop command ends, setup_gcp and
\* start_litellm go on.
AfterStop(c) ==
    IF cmd[c] = "stop" THEN Return(c)
    ELSE IF cmd[c] = "setup_gcp" THEN Goto(c, "gcp_project")
    ELSE Goto(c, "start_check")

\* Mutant: the existence test is lost and stop always goes on to read the
\* sentinel.
PidFileExists_Always(s) == TRUE

\* self.pid_file.exists()
PidFileExists(s) == s.exists

\* if not self.pid_file.exists(): ... return
StopCheck(c) ==
    /\ pc[c] = "stop_check"
    /\ IF ~PidFileExists(sentinel)
          THEN Say(c, "not_running") /\ AfterStop(c)
          ELSE Goto(c, "stop_kill") /\ UNCHANGED reported
    /\ UNCHANGED <<shared, cmd, envVars, pidRead, child, i, j, inflight,
                   healthSeen, readiness, authStatus, authProbes, posts,
                   postOk, signals>>

\* Mutant: the isdigit() test is inverted, so os.kill is never called for a
\* pid.
KillOutcome_NeverKills(s, procs) == "skipped"

\* What os.kill(int(pid), 15) does for the text read from the sentinel:
\* "skipped" when the text is not isdigit(), "delivered" when the process
\* exists, "lookup_error" (ProcessLookupError, swallowed) when it does not.
KillOutcome(s, procs) ==
    IF ~s.digits THEN "skipped"
    ELSE IF s.pid \in procs THEN "delivered"
    ELSE "lookup_error"

\* Mutant: the unlink sits at the end of the if body instead of in a finally
\* clause, so it runs only after a delivered signal.
SentinelAfterKill_TryOnly(s, result) ==
    IF result = "delivered" THEN NoSentinel ELSE s

\* finally: self.pid_file.unlink(missing_ok=True), whatever the try did.
SentinelAfterKill(s, result) == NoSentinel

\* pid = read_text().strip(); try: if pid.isdigit(): os.kill(...); sleep(1)
\* The finally clause runs at once unless the signal was delivered, in which
\* case the caller first sleeps for a second.
StopKill(c) ==
    /\ pc[c] = "stop_kill"
    /\ IF ~sentinel.exists
          THEN \* read_text() raises FileNotFoundError, outside the try
               /\ Crash(c)
               /\ UNCHANGED <<sentinel, pidRead, signals, reported>>
          ELSE LET result == KillOutcome(sentinel, alive)
               IN  /\ pidRead' = [pidRead EXCEPT ![c] = sentinel]
                   /\ IF result = "delivered"
                         THEN /\ signals' = [signals EXCEPT
                                               ![c] = @ \cup {sentinel.pid}]
                              /\ Say(c, "stopped")
                              /\ Goto(c, "stop_sleep")
                              /\ UNCHANGED sentinel
                         ELSE /\ sentinel' = SentinelAfterKill(sentinel, result)
                              /\ AfterStop(c)
                              /\ UNCHANGED <<signals, reported>>
    /\ UNCHANGED <<envFile, sampleFile, configFiles, settings, logFile, alive,
                   cmd, envVars, child, i, j, inflight, healthSeen,
                   readiness, authStatus, authProbes, posts, postOk>>

\* time.sleep(1) is over: the finally clause after a delivered signal.
StopUnlink(c) ==
    /\ pc[c] = "stop_sleep"
    /\ sentinel' = SentinelAfterKill(sentinel, "delivered")
    /\ AfterStop(c)
    /\ UNCHANGED <<envFile, sampleFile, configFiles, settings, logFile, alive,
                   cmd, envVars, pidRead, child, i, j, inflight, healthSeen,
                   readiness, authStatus, authProbes, posts, postOk,
                   signals, reported>>

\* --------------------------------------------------------- start_litellm

\* Mutant: the default profile is the proxy one.
Profile_DefaultCopilot(env) == Get(env, "PROFILE", "copilot")

\* profile = env_vars.get("PROFILE", "gcp")
Profile(env) == Get(env, "PROFILE", "gcp")

\* env_vars.get("LITELLM_CONFIG", "").strip() or "config.copilot.yaml"
ResolveConfig(env) ==
    LET s == Strip(Get(env, "LITELLM_CONFIG", ""))
    IN  IF s = "" THEN "config.copilot.yaml" ELSE s

\* env_vars.get("LITELLM_MASTER_KEY", "").strip()
MasterKey(env) == Strip(Get(env, "LITELLM_MASTER_KEY", ""))

\* load_env_vars (with ensure_env_file), then the profile test.
StartLoad(c) ==
    /\ pc[c] = "start_load"
    /\ IF ~envFile.exists /\ ~sampleFile.exists
          THEN /\ Say(c, "sample_missing")
               /\ Fatal(c)
               /\ UNCHANGED <<envFile, envVars>>
          ELSE LET file == IF envFile.exists THEN envFile ELSE sampleFile
               IN  /\ envFile' = file
                   /\ envVars' = [envVars EXCEPT ![c] = file.vars]
                   /\ IF Profile(file.vars) = "gcp"
                         THEN Say(c, "gcp_refused") /\ Fatal(c)
                         ELSE Goto(c, "stop_check") /\ UNCHANGED reported
    /\ UNCHANGED <<sampleFile, configFiles, sentinel, settings, logFile,
                   alive,
                   cmd, pidRead, child, i, j, inflight, healthSeen,
                   readiness, authStatus, authProbes, posts, postOk, signals>>

\* Mutant: the master key test is missing.
MissingPrerequisite_ConfigOnly(env, files) ==
    IF ResolveConfig(env) \notin files THEN "config_missing" ELSE "none"

\* The two prerequisite tests between stop_litellm() and the spawn.
MissingPrerequisite(env, files) ==
    IF ResolveConfig(env) \notin files THEN "config_missing"
    ELSE IF MasterKey(env) = "" THEN "key_missing"
    ELSE "none"

StartCheck(c) ==
    /\ pc[c] = "start_check"
    /\ LET missing == MissingPrerequisite(envVars[c], configFiles)
       IN  IF missing # "none"
              THEN Say(c, missing) /\ Fatal(c)
              ELSE Goto(c, "spawn") /\ UNCHANGED reported
    /\ UNCHANGED <<shared, cmd, envVars, pidRead, child, i, j, inflight,
                   healthSeen, readiness, authStatus, authProbes, posts,
                   postOk, signals>>

\* Pids of children that exited but that their parent has not reaped: the OS
\* does not hand them out again.
Unreaped == {child[d] : d \in {e \in Callers : pc[e] \notin {"idle", "off"}}}

\* Mutant: the pid of the new process is not recorded.
SentinelAfterSpawn_NotWritten(p) == NoSentinel

\* self.pid_file.write_text(str(process.pid))
SentinelAfterSpawn(p) == PidSentinel(p)

\* with open(log, "w"): process = Popen(...); pid_file.write_text(str(pid))
Spawn(c) ==
    /\ pc[c] = "spawn"
    /\ logFile' = TRUE
    /\ \/ \E p \in Pids \ (alive \cup Unreaped) :
             /\ alive' = alive \cup {p}
             /\ child' = [child EXCEPT ![c] = p]
             /\ sentinel' = SentinelAfterSpawn(p)
             /\ Goto(c, "ready_poll")
       \/ \* Popen raises (no litellm executable, no process slot)
          /\ Crash(c)
          /\ UNCHANGED <<alive, child, sentinel>>
    /\ UNCHANGED <<envFile, sampleFile, configFiles, settings,
                   cmd, envVars, pidRead, i, j, inflight, healthSeen,
                   readiness, authStatus, authProbes, posts, postOk,
                   signals, reported>>

\* Mutant: the loops are "while True".
Exhausted_Never(n, budget) == FALSE

\* for _ in range(budget): n iterations done, none left.
Exhausted(n, budget) == n >= budget

\* Mutant: continue instead of break, the loop goes on after its verdict.
LeaveLoop_Continue(c) ==
    i' = [i EXCEPT ![c] = @ + 1] /\ Goto(c, "ready_poll")

\* if profile == "copilot": the authentication loop follows, else return.
\* The loop variable is rebound by the second for statement.
LeaveLoop(c) ==
    IF Profile(envVars[c]) = "copilot"
       THEN i' = [i EXCEPT ![c] = 0] /\ Goto(c, "auth_poll")
       ELSE UNCHANGED i /\ Return(c)

\* Mutant: running out of iterations is reported as a fatal timeout.
OnBudgetExhausted_Fatal(c) ==
    /\ readiness' = [readiness EXCEPT ![c] = "exhausted"]
    /\ Say(c, "health_timeout")
    /\ Fatal(c)
    /\ UNCHANGED i

\* range(30) is used up: the for statement ends and nothing is printed.
OnBudgetExhausted(c) ==
    /\ readiness' = [readiness EXCEPT ![c] = "exhausted"]
    /\ LeaveLoop(c)
    /\ UNCHANGED reported

\* Mutant: a child that has exited is reported and polling goes on.
OnChildExited_KeepPolling(c) ==
    /\ Say(c, "child_exited")
    /\ inflight' = [inflight EXCEPT ![c] = "health"]
    /\ Goto(c, "ready_unauth")
    /\ UNCHANGED <<sentinel, readiness, i>>

\* Mutant: a child that has exited has its pid file removed before the exit.
OnChildExited_Cleanup(c) ==
    /\ Say(c, "child_exited")
    /\ Fatal(c)
    /\ sentinel' = NoSentinel
    /\ UNCHANGED <<inflight, readiness, i>>

\* if proc.poll() is not None: print the error and the log hint, then
\* raise SystemExit(1).
OnChildExited(c) ==
    /\ Say(c, "child_exited")
    /\ Fatal(c)
    /\ UNCHANGED <<sentinel, inflight, readiness, i>>

\* Top of a readiness iteration: the range(30) test, process.poll(), and the
\* unauthenticated GET /health going out.
ReadyPoll(c) ==
    /\ pc[c] = "ready_poll"
    /\ IF Exhausted(i[c], ReadyBudget)
          THEN /\ OnBudgetExhausted(c)
               /\ UNCHANGED <<sentinel, inflight>>
          ELSE IF child[c] \notin alive
          THEN OnChildExited(c)
          ELSE /\ inflight' = [inflight EXCEPT ![c] = "health"]
               /\ Goto(c, "ready_unauth")
               /\ UNCHANGED <<sentinel, readiness, i, reported>>
    /\ UNCHANGED <<envFile, sampleFile, configFiles, settings, logFile, alive,
                   cmd, envVars, pidRead, child, j, healthSeen,
                   authStatus, authProbes, posts, postOk, signals>>

\* The unauthenticated probe ends: a RequestException sleeps and loops, any
\* HTTP response sends the authenticated probe.
ReadyUnauth(c) ==
    /\ pc[c] = "ready_unauth"
    /\ \/ /\ inflight' = [inflight EXCEPT ![c] = "none"]
          /\ i' = [i EXCEPT ![c] = @ + 1]
          /\ Goto(c, "ready_poll")
          /\ UNCHANGED <<healthSeen, authProbes, reported>>
       \/ \E status \in HttpStatuses :
             /\ healthSeen' = [healthSeen EXCEPT ![c] = TRUE]
             /\ Say(c, "server_up")
             /\ inflight' = [inflight EXCEPT ![c] = "health_auth"]
             /\ authProbes' = [authProbes EXCEPT ![c] = @ + 1]
             /\ Goto(c, "ready_auth")
             /\ UNCHANGED i
    /\ UNCHANGED <<shared, cmd, envVars, pidRead, child, j, readiness,
                   authStatus, posts, postOk, signals>>

\* Mutant: only 401 counts as a rejected key.
AuthVerdict_Only401(status) ==
    IF status = 200 THEN "ok"
    ELSE IF status = 401 THEN "rejected"
    ELSE "other"

\* The branch the code takes on auth_resp.status_code.
AuthVerdict(status) ==
    IF status = 200 THEN "ok"
    ELSE IF status \in {401, 403} THEN "rejected"
    ELSE "other"

\* Mutant: a status other than 200 is fatal, whatever it is.
OnAuthVerdict_OnlyOk(c, verdict) ==
    IF verdict = "ok" THEN Say(c, "health_ok") /\ LeaveLoop(c)
    ELSE IF verdict = "rejected"
       THEN Say(c, "key_rejected") /\ Fatal(c) /\ UNCHANGED i
    ELSE Say(c, "health_warn") /\ Fatal(c) /\ UNCHANGED i

\* What the code does with the verdict: break, raise SystemExit(1), or warn
\* and break.
OnAuthVerdict(c, verdict) ==
    IF verdict = "ok" THEN Say(c, "health_ok") /\ LeaveLoop(c)
    ELSE IF verdict = "rejected"
       THEN Say(c, "key_rejected") /\ Fatal(c) /\ UNCHANGED i
    ELSE Say(c, "health_warn") /\ LeaveLoop(c)

\* The authenticated probe ends.
ReadyAuth(c) ==
    /\ pc[c] = "ready_auth"
    /\ inflight' = [inflight EXCEPT ![c] = "none"]
    /\ \/ \E status \in HttpStatuses :
             /\ authStatus' = [authStatus EXCEPT ![c] = status]
             /\ readiness' = [readiness EXCEPT ![c] = AuthVerdict(status)]
             /\ OnAuthVerdict(c, AuthVerdict(status))
       \/ \* requests.exceptions.RequestException
          /\ readiness' = [readiness EXCEPT ![c] = "timeout"]
          /\ Say(c, "health_slow")
          /\ LeaveLoop(c)
          /\ UNCHANGED authStatus
    /\ UNCHANGED <<shared, cmd, envVars, pidRead, child, j, healthSeen,
                   authProbes, posts, postOk, signals>>

\* Status codes the synthetic chat request is answered with.
PostStatuses == {200, 401}

\* Mutant: every status that is no server error ends the loop.
PostAccepted_Below500(status) == status < 500

\* if r.status_code == 200: ... return
PostAccepted(status) == status = 200

\* One iteration of the copilot authentication loop, or its exhaustion.
AuthPoll(c) ==
    /\ pc[c] = "auth_poll"
    /\ IF Exhausted(j[c], AuthBudget)
          THEN /\ Say(c, "copilot_incomplete")
               /\ Fatal(c)
               /\ UNCHANGED <<j, posts, postOk>>
          ELSE /\ posts' = [posts EXCEPT ![c] = @ + 1]
               /\ \/ \E status \in PostStatuses :
                        /\ postOk' = [postOk EXCEPT ![c] = (status = 200)]
                        /\ IF PostAccepted(status)
                              THEN /\ Say(c, "copilot_ok")
                                   /\ Return(c)
                                   /\ UNCHANGED j
                              ELSE /\ j' = [j EXCEPT ![c] = @ + 1]
                                   /\ Goto(c, "auth_poll")
                                   /\ UNCHANGED reported
                  \/ \* requests.exceptions.RequestException
                     /\ j' = [j EXCEPT ![c] = @ + 1]
                     /\ Goto(c, "auth_poll")
                     /\ UNCHANGED <<postOk, reported>>
    /\ UNCHANGED <<shared, cmd, envVars, pidRead, child, i, inflight,
                   healthSeen, readiness, authStatus, authProbes, signals>>

\* ----------------------------------------------------------------- status

\* profile = env_vars.get("PROFILE", "None")
StatusProfile(env) == Get(env, "PROFILE", "None")

\* status begins: load_env_vars(), which creates the env file from the sample
\* when it is missing, or is fatal without a sample.
StatusLoad(c) ==
    /\ pc[c] = "status_load"
    /\ IF ~envFile.exists /\ ~sampleFile.exists
          THEN /\ Say(c, "sample_missing")
               /\ Fatal(c)
               /\ UNCHANGED <<envFile, envVars>>
          ELSE LET file == IF envFile.exists THEN envFile ELSE sampleFile
               IN  /\ envFile' = file
                   /\ envVars' = [envVars EXCEPT ![c] = file.vars]
                   /\ Goto(c, "status_probe")
                   /\ UNCHANGED reported
    /\ UNCHANGED <<sampleFile, configFiles, sentinel, settings, logFile,
                   alive,
                   cmd, pidRead, child, i, j, inflight, healthSeen,
                   readiness, authStatus, authProbes, posts, postOk, signals>>

\* int(pid) accepts the stripped text. The sentinel texts of the model are a
\* decimal pid, which int() and isdigit() both accept, and a text neither
\* accepts.
ParsesAsInt(s) == s.digits

\* Mutant: a sentinel that holds a number is taken for a running proxy.
ProxyLine_TrustFile(s, procs) ==
    IF ~s.exists THEN "proxy_not_running"
    ELSE IF ~ParsesAsInt(s) THEN "proxy_stale"
    ELSE "proxy_running"

\* The line status prints about the proxy under a profile other than gcp:
\* no pid file, int() raising ValueError, os.kill(pid, 0) raising
\* ProcessLookupError, or os.kill returning.
ProxyLine(s, procs) ==
    IF ~s.exists THEN "proxy_not_running"
    ELSE IF ~ParsesAsInt(s) THEN "proxy_stale"
    ELSE IF s.pid \notin procs THEN "proxy_stale"
    ELSE "proxy_running"

\* The line status prints about the settings document.
SettingsLine(doc) ==
    IF ~doc.exists THEN "settings_missing"
    ELSE IF /\ "CLAUDE_CODE_USE_VERTEX" \in DOMAIN doc.env
            /\ doc.env["CLAUDE_CODE_USE_VERTEX"] = "1"
       THEN "settings_vertex"
    ELSE "settings_proxy"

\* The rest of status: the proxy line and the settings line. It reads the
\* sentinel and the settings document and writes no file.
StatusProbe(c) ==
    /\ pc[c] = "status_probe"
    /\ LET proxy == IF StatusProfile(envVars[c]) = "gcp"
                       THEN "proxy_not_used"
                       ELSE ProxyLine(sentinel, alive)
       IN  reported' = [reported EXCEPT
                           ![c] = @ \cup {proxy, SettingsLine(settings)}]
    /\ pidRead' = [pidRead EXCEPT ![c] = IF StatusProfile(envVars[c]) = "gcp"
                                            THEN NoSentinel ELSE sentinel]
    /\ Return(c)
    /\ UNCHANGED <<shared, cmd, envVars, child, i, j, inflight, healthSeen,
                   readiness, authStatus, authProbes, posts, postOk, signals>>

\* ------------------------------------------------------------------ setup

\* The locals of start_litellm, which the setup steps leave alone.
startLocals == <<child, i, j, inflight, healthSeen, readiness, authStatus,
                 authProbes, posts, postOk>>

\* Mutant: the update is not written to the env file.
UpdatedEnvFile_NotWritten(file, updates) == file

\* update_env_vars on an env file that exists: the keys are set in place.
UpdatedEnvFile(file, updates) == EnvFileOf(SetKeys(file.vars, updates))

\* update_env_vars(updates), then go on at label: ensure_env_file creates
\* the env file from the sample or is fatal without one.
UpdateEnvThen(c, updates, label) ==
    IF ~envFile.exists /\ ~sampleFile.exists
       THEN /\ Say(c, "sample_missing")
            /\ Fatal(c)
            /\ UNCHANGED envFile
       ELSE LET file == IF envFile.exists THEN envFile ELSE sampleFile
            IN  /\ envFile' = UpdatedEnvFile(file, updates)
                /\ Goto(c, label)
                /\ UNCHANGED reported

\* setup_gcp begins: PROFILE=gcp is written, stop_litellm follows.
GcpProfile(c) ==
    /\ pc[c] = "gcp_profile"
    /\ UpdateEnvThen(c, [PROFILE |-> "gcp"], "stop_check")
    /\ UNCHANGED <<sampleFile, configFiles, sentinel, settings, logFile,
                   alive, cmd, envVars, pidRead, startLocals, signals>>

\* What "gcloud config get-value project" prints, or that it failed.
DetectOutputs == {"<failed>", "(unset)", "acme"}

\* returncode == 0 and stdout.strip() and "(unset)" not in stdout
Detected(out) == out \notin {"<failed>", "(unset)", ""}

\* What the operator types at the project id prompt.
PromptInputs == {"  ", "acme"}

\* ensure_gcp_project_id and the load_env_vars after it: a project id in the
\* env file is kept; else the one gcloud prints is stored; else the operator
\* is asked, and an empty answer is fatal.
GcpProject(c) ==
    /\ pc[c] = "gcp_project"
    /\ IF ~envFile.exists /\ ~sampleFile.exists
          THEN /\ Say(c, "sample_missing")
               /\ Fatal(c)
               /\ UNCHANGED <<envFile, envVars>>
          ELSE LET file == IF envFile.exists THEN envFile ELSE sampleFile
                   Store(id) ==
                       /\ envFile' = UpdatedEnvFile(file, [GCP_PROJECT_ID |-> id])
                       /\ envVars' = [envVars EXCEPT
                              ![c] = SetKeys(file.vars, [GCP_PROJECT_ID |-> id])]
                       /\ Goto(c, "gcp_auth")
                       /\ UNCHANGED reported
               IN  IF Get(file.vars, "GCP_PROJECT_ID", "") # ""
                      THEN /\ envFile' = file
                           /\ envVars' = [envVars EXCEPT ![c] = file.vars]
                           /\ Goto(c, "gcp_auth")
                           /\ UNCHANGED reported
                      ELSE \E out \in DetectOutputs :
                              IF Detected(out)
                                 THEN Store(Strip(out))
                                 ELSE \E typed \in PromptInputs :
                                         IF Strip(typed) = ""
                                            THEN /\ Say(c, "project_required")
                                                 /\ Fatal(c)
                                                 /\ envFile' = file
                                                 /\ UNCHANGED envVars
                                            ELSE Store(Strip(typed))
    /\ UNCHANGED <<sampleFile, configFiles, sentinel, settings, logFile,
                   alive, cmd, pidRead, startLocals, signals>>

\* authenticate_gcp_adc: no gcloud on the path is fatal; a gcloud command
\* that exits non-zero raises CalledProcessError, which nobody catches.
GcpAuth(c) ==
    /\ pc[c] = "gcp_auth"
    /\ \/ Say(c, "gcloud_missing") /\ Fatal(c)
       \/ Crash(c) /\ UNCHANGED reported
       \/ Goto(c, "gcp_write") /\ UNCHANGED reported
    /\ UNCHANGED <<shared, cmd, envVars, pidRead, startLocals, signals>>

\* The last statements of setup_gcp: the settings document is written from
\* the record loaded before the authentication.
GcpWrite(c) ==
    /\ pc[c] = "gcp_write"
    /\ settings' = write_claude_settings(
                       settings, build_gcp_native_settings_env(envVars[c]))
    /\ Say(c, "gcp_complete")
    /\ Return(c)
    /\ UNCHANGED <<envFile, sampleFile, configFiles, sentinel, logFile, alive,
                   cmd, envVars, pidRead, startLocals, signals>>

\* setup_copilot begins: PROFILE and LITELLM_CONFIG are written.
CopilotProfile(c) ==
    /\ pc[c] = "copilot_profile"
    /\ UpdateEnvThen(c, [PROFILE |-> "copilot",
                         LITELLM_CONFIG |-> "config.copilot.yaml"],
                     "copilot_key")
    /\ UNCHANGED <<sampleFile, configFiles, sentinel, settings, logFile,
                   alive, cmd, envVars, pidRead, startLocals, signals>>

\* Values of secrets.token_hex(32).
GeneratedKeys == {"4f1c", "9a2e"}

\* Mutant: every setup copilot generates a fresh key.
NeedsMasterKey_Always(env) == TRUE

\* if not key or key == "your-litellm-master-key"
NeedsMasterKey(env) == MasterKey(env) \in {"", "your-litellm-master-key"}

\* ensure_master_key: a missing, blank or placeholder key is replaced by a
\* generated one.
CopilotKey(c) ==
    /\ pc[c] = "copilot_key"
    /\ IF ~envFile.exists /\ ~sampleFile.exists
          THEN /\ Say(c, "sample_missing")
               /\ Fatal(c)
               /\ UNCHANGED envFile
          ELSE LET file == IF envFile.exists THEN envFile ELSE sampleFile
               IN  /\ IF NeedsMasterKey(file.vars)
                         THEN \E key \in GeneratedKeys :
                                 envFile' = UpdatedEnvFile(
                                     file, [LITELLM_MASTER_KEY |-> key])
                         ELSE envFile' = file
                   /\ Goto(c, "copilot_write")
                   /\ UNCHANGED reported
    /\ UNCHANGED <<sampleFile, configFiles, sentinel, settings, logFile,
                   alive, cmd, envVars, pidRead, startLocals, signals>>

\* load_env_vars and write_claude_settings of setup_copilot; start_litellm
\* follows.
CopilotWrite(c) ==
    /\ pc[c] = "copilot_write"
    /\ IF ~envFile.exists /\ ~sampleFile.exists
          THEN /\ Say(c, "sample_missing")
               /\ Fatal(c)
               /\ UNCHANGED <<envFile, envVars, settings>>
          ELSE LET file == IF envFile.exists THEN envFile ELSE sampleFile
               IN  /\ envFile' = file
                   /\ envVars' = [envVars EXCEPT ![c] = file.vars]
                   /\ settings' = write_claude_settings(
                                      settings,
                                      build_proxy_settings_env(file.vars))
                   /\ Goto(c, "start_load")
                   /\ UNCHANGED reported
    /\ UNCHANGED <<sampleFile, configFiles, sentinel, logFile, alive,
                   cmd, pidRead, startLocals, signals>>

\* ------------------------------------------------------------ environment

\* A proxy process ends (on its own, or because of a signal it was sent).
Exit(p) ==
    /\ p \in alive
    /\ alive' = alive \ {p}
    /\ UNCHANGED <<envFile, sampleFile, configFiles, sentinel, settings,
                   logFile, pc, cmd, outcome, envVars, pidRead, child, i, j, inflight,
                   healthSeen, readiness, authStatus, authProbes, posts, postOk,
                   signals, reported>>

\* ---------------------------------------------------------- specification

InitShared ==
    /\ \/ /\ envFile = NoFile
          /\ sampleFile \in {NoFile} \cup {EnvFileOf(r) : r \in SampleRecords}
       \/ /\ envFile \in {EnvFileOf(r) : r \in EnvRecords}
          /\ sampleFile = NoFile
    /\ configFiles \in ConfigDirs
    /\ sentinel \in {NoSentinel, JunkSentinel}
    /\ settings = NoDoc
    /\ logFile = FALSE
    /\ alive = {}

InitLocals ==
    /\ cmd = [c \in Callers |-> "none"]
    /\ outcome = [c \in Callers |-> "none"]
    /\ envVars = [c \in Callers |-> EmptyEnv]
    /\ pidRead = [c \in Callers |-> NoSentinel]
    /\ child = [c \in Callers |-> 0]
    /\ i = [c \in Callers |-> 0]
    /\ j = [c \in Callers |-> 0]
    /\ inflight = [c \in Callers |-> "none"]
    /\ healthSeen = [c \in Callers |-> FALSE]
    /\ readiness = [c \in Callers |-> "pending"]
    /\ authStatus = [c \in Callers |-> 0]
    /\ authProbes = [c \in Callers |-> 0]
    /\ posts = [c \in Callers |-> 0]
    /\ postOk = [c \in Callers |-> FALSE]
    /\ signals = [c \in Callers |-> {}]
    /\ reported = [c \in Callers |-> {}]

\* A single operator at the keyboard: caller 1 runs commands one at a time.
Init ==
    /\ InitShared
    /\ InitLocals
    /\ pc = [c \in Callers |-> IF c = 1 THEN "idle" ELSE "off"]

Next ==
    \/ \E c \in Callers :
          \/ Invoke(c)
          \/ StopCheck(c)
          \/ StopKill(c)
          \/ StopUnlink(c)
          \/ StartLoad(c)
          \/ StartCheck(c)
          \/ Spawn(c)
          \/ ReadyPoll(c)
          \/ ReadyUnauth(c)
          \/ ReadyAuth(c)
          \/ AuthPoll(c)
          \/ StatusLoad(c)
          \/ StatusProbe(c)
    \/ \E p \in Pids : Exit(p)

Spec == Init /\ [][Next]_vars

\* The operator runs the setup commands on a fresh checkout: no env file
\* yet, the sample file of the repository or none, and the copilot
\* configuration in config/.
InitSetup ==
    /\ envFile = NoFile
    /\ sampleFile \in {NoFile, EnvFileOf(ProxyEnv(Absent, Absent,
                                   "your-litellm-master-key", Absent))}
    /\ configFiles = {"config.copilot.yaml"}
    /\ sentinel = NoSentinel
    /\ settings = NoDoc
    /\ logFile = FALSE
    /\ alive = {}
    /\ InitLocals
    /\ pc = [c \in Callers |-> IF c = 1 THEN "idle" ELSE "off"]

\* setup gcp and setup copilot, with the stop_litellm and start_litellm they
\* call.
NextSetup ==
    \/ \E c \in Callers :
          \/ InvokeSetup(c)
          \/ GcpProfile(c)
          \/ GcpProject(c)
          \/ GcpAuth(c)
          \/ GcpWrite(c)
          \/ CopilotProfile(c)
          \/ CopilotKey(c)
          \/ CopilotWrite(c)
          \/ StopCheck(c)
          \/ StopKill(c)
          \/ StopUnlink(c)
          \/ StartLoad(c)
          \/ StartCheck(c)
          \/ Spawn(c)
          \/ ReadyPoll(c)
          \/ ReadyUnauth(c)
          \/ ReadyAuth(c)
          \/ AuthPoll(c)
    \/ \E p \in Pids : Exit(p)

SpecSetup == InitSetup /\ [][NextSetup]_vars

\* Every command, in any order, on a fresh checkout or on an env file that
\* holds no master key, a blank one or a real one. The proxy answers within
\* MaxKeyRetries unanswered health probes and the device login completes
\* within MaxKeyRetries refused chat requests, or the start has failed
\* before.
InitKey ==
    /\ \/ /\ envFile = NoFile
          /\ sampleFile \in {NoFile, EnvFileOf(ProxyEnv(Absent, Absent,
                                         "your-litellm-master-key", Absent))}
       \/ /\ envFile \in {EnvFileOf(ProxyEnv(Absent, Absent, key, Absent)) :
                             key \in KeyValues}
          /\ sampleFile = NoFile
    /\ configFiles = {"config.copilot.yaml"}
    /\ sentinel = NoSentinel
    /\ settings = NoDoc
    /\ logFile = FALSE
    /\ alive = {}
    /\ InitLocals
    /\ pc = [c \in Callers |-> IF c = 1 THEN "idle" ELSE "off"]

\* The unauthenticated probe ends, answered after at most MaxKeyRetries
\* unanswered probes.
ReadyUnauthShort(c) == ReadyUnauth(c) /\ i'[c] <= MaxKeyRetries

\* One iteration of the copilot authentication loop, accepted after at most
\* MaxKeyRetries refused requests.
AuthPollShort(c) == AuthPoll(c) /\ j'[c] <= MaxKeyRetries

NextKey ==
    \/ \E c \in Callers :
          \/ Invoke(c)
          \/ InvokeSetup(c)
          \/ GcpProfile(c)
          \/ GcpProject(c)
          \/ GcpAuth(c)
          \/ GcpWrite(c)
          \/ CopilotProfile(c)
          \/ CopilotKey(c)
          \/ CopilotWrite(c)
          \/ StopCheck(c)
          \/ StopKill(c)
          \/ StopUnlink(c)
          \/ StartLoad(c)
          \/ StartCheck(c)
          \/ Spawn(c)
          \/ ReadyPoll(c)
          \/ ReadyUnauthShort(c)
          \/ ReadyAuth(c)
          \/ AuthPollShort(c)
          \/ StatusLoad(c)
          \/ StatusProbe(c)
    \/ \E p \in Pids : Exit(p)

SpecKey == InitKey /\ [][NextKey]_vars

\* The two projections applied to env records. The records range over an
\* absent, an empty and a set value of every key the projections read.
ProjectionRecords ==
    {[k \in EnvKeys |->
         CASE k = "LITELLM_PORT" -> port
           [] k = "LITELLM_MASTER_KEY" -> key
           [] k = "GCP_PROJECT_ID" -> project
           [] k = "CLOUD_ML_REGION" -> region
           [] k = "ANTHROPIC_MODEL" -> model
           [] k = "ANTHROPIC_SMALL_FAST_MODEL" -> small
           [] OTHER -> Absent] :
        port \in {Absent, "", "8080"},
        key \in {Absent, " key1 ", "your-litellm-master-key"},
        project \in {Absent, "", "acme"},
        region \in {Absent, "europe-west1"},
        model \in {Absent, "", "claude-sonnet"},
        small \in {Absent, "", "claude-haiku"}}

InitProject ==
    /\ envFile = NoFile
    /\ sampleFile = NoFile
    /\ configFiles = {"config.copilot.yaml"}
    /\ sentinel = NoSentinel
    /\ settings = NoDoc
    /\ logFile = FALSE
    /\ alive = {}
    /\ cmd = [c \in Callers |-> "none"]
    /\ outcome = [c \in Callers |-> IF c = 1 THEN "running" ELSE "none"]
    /\ \E r \in ProjectionRecords :
          envVars = [c \in Callers |-> IF c = 1 THEN r ELSE EmptyEnv]
    /\ pidRead = [c \in Callers |-> NoSentinel]
    /\ child = [c \in Callers |-> 0]
    /\ i = [c \in Callers |-> 0]
    /\ j = [c \in Callers |-> 0]
    /\ inflight = [c \in Callers |-> "none"]
    /\ healthSeen = [c \in Callers |-> FALSE]
    /\ readiness = [c \in Callers |-> "pending"]
    /\ authStatus = [c \in Callers |-> 0]
    /\ authProbes = [c \in Callers |-> 0]
    /\ posts = [c \in Callers |-> 0]
    /\ postOk = [c \in Callers |-> FALSE]
    /\ signals = [c \in Callers |-> {}]
    /\ reported = [c \in Callers |-> {}]
    /\ pc = [c \in Callers |-> IF c = 1 THEN "project" ELSE "off"]

\* write_claude_settings(build_gcp_native_settings_env(env_vars)); the
\* projection warns about a project id that is missing or empty.
WriteGcpSettings(c) ==
    /\ pc[c] = "project"
    /\ cmd' = [cmd EXCEPT ![c] = "build_gcp_native_settings_env"]
    /\ settings' = write_claude_settings(
                       settings, build_gcp_native_settings_env(envVars[c]))
    /\ IF Get(envVars[c], "GCP_PROJECT_ID", "") = ""
          THEN Say(c, "project_missing")
          ELSE UNCHANGED reported
    /\ Return(c)
    /\ UNCHANGED <<envFile, sampleFile, configFiles, sentinel, logFile, alive,
                   envVars, pidRead, startLocals, signals>>

\* write_claude_settings(build_proxy_settings_env(env_vars))
WriteProxySettings(c) ==
    /\ pc[c] = "project"
    /\ cmd' = [cmd EXCEPT ![c] = "build_proxy_settings_env"]
    /\ settings' = write_claude_settings(
                       settings, build_proxy_settings_env(envVars[c]))
    /\ Return(c)
    /\ UNCHANGED <<envFile, sampleFile, configFiles, sentinel, logFile, alive,
                   envVars, pidRead, startLocals, signals, reported>>

NextProject ==
    \E c \in Callers : WriteGcpSettings(c) \/ WriteProxySettings(c)

SpecProject == InitProject /\ [][NextProject]_vars

\* Two operators (or an operator and a script) each run start once, at any
\* time, against the same env file, config directory and /tmp. Nothing in
\* manage.py takes a lock, so their steps interleave freely. The profile is
\* a proxy profile without the copilot authentication loop.
RaceCallers == {1, 2}

InitRace ==
    /\ envFile = EnvFileOf(ProxyEnv("ollama", " config.ollama.yaml ", " key1 ",
                                    Absent))
    /\ sampleFile = NoFile
    /\ configFiles = {"config.ollama.yaml"}
    /\ sentinel = NoSentinel
    /\ settings = NoDoc
    /\ logFile = FALSE
    /\ alive = {}
    /\ InitLocals
    /\ pc = [c \in Callers |-> IF c \in RaceCallers THEN "idle" ELSE "off"]

\* run_cli dispatches the caller's one start.
InvokeStart(c) == cmd[c] = "none" /\ Dispatch(c, "start")

\* The unauthenticated probe ends, in a network where a proxy that stays up
\* answers /health after at most MaxRaceRetries unanswered probes.
ReadyUnauthSoon(c) == ReadyUnauth(c) /\ i'[c] <= MaxRaceRetries

NextRace ==
    \/ \E c \in Callers :
          \/ InvokeStart(c)
          \/ StopCheck(c)
          \/ StopKill(c)
          \/ StopUnlink(c)
          \/ StartLoad(c)
          \/ StartCheck(c)
          \/ Spawn(c)
          \/ ReadyPoll(c)
          \/ ReadyUnauthSoon(c)
          \/ ReadyAuth(c)
    \/ \E p \in Pids : Exit(p)

SpecRace == InitRace /\ [][NextRace]_vars

\* ------------------------------------------------------------------ claims

\* Positions of start_litellm before its prerequisite tests have passed.
BeforeSpawn == {"start_load", "stop_check", "stop_kill", "stop_sleep",
                "start_check"}

\* Positions of start_litellm after the spawn step.
AfterSpawn == {"ready_poll", "ready_unauth", "ready_auth", "auth_poll"}

\* C1: start_litellm with PROFILE "gcp", or with no PROFILE line in the env
\* file, ends fatally (SystemExit(1)) and has spawned no process and sent no
\* signal.
C1_GcpStartRefused ==
    \A c \in Callers :
        ( /\ cmd[c] = "start"
          /\ pc[c] # "start_load"
          /\ envFile.exists
          /\ envFile.vars.PROFILE \in {Absent, "gcp"} )
        => /\ pc[c] = "idle"
           /\ outcome[c] = "fatal"
           /\ "gcp_refused" \in reported[c]
           /\ child[c] = 0
           /\ signals[c] = {}

\* A start that was refused because the env file holds no PROFILE line, with
\* a sentinel on disk that it has left alone.
C1_Witness ==
    \E c \in Callers :
        /\ cmd[c] = "start"
        /\ pc[c] = "idle"
        /\ outcome[c] = "fatal"
        /\ envFile.exists
        /\ envFile.vars.PROFILE = Absent
        /\ sentinel = JunkSentinel
        /\ child[c] = 0

\* C2: the stop command, when the sentinel does not exist, returns normally
\* in one step that delivers no signal and leaves every file as it was.
C2_StopWithoutSentinelIsNoOp ==
    [][ \A c \in Callers :
          ( /\ cmd[c] = "stop"
            /\ pc[c] = "stop_check"
            /\ ~sentinel.exists )
          => /\ UNCHANGED <<envFile, sampleFile, configFiles, sentinel,
                            logFile>>
             /\ signals'[c] = {}
             /\ pc'[c] # pc[c] => /\ pc'[c] = "idle"
                                  /\ outcome'[c] = "ok"
                                  /\ alive' = alive ]_vars

\* A stop that found no sentinel and returned, while a proxy process that an
\* earlier stop had signalled is still running: it was sent nothing.
C2_Witness ==
    \E c \in Callers :
        /\ cmd[c] = "stop"
        /\ pc[c] = "idle"
        /\ outcome[c] = "ok"
        /\ "not_running" \in reported[c]
        /\ signals[c] = {}
        /\ ~sentinel.exists
        /\ alive # {}

\* C3: once the authenticated probe was answered 200, in whichever of the 30
\* iterations, success is reported, exactly one authenticated probe has been
\* issued, and no health probe is in flight or can be issued again: the
\* caller is in the authentication loop or has finished.
C3_NoProbeAfter200 ==
    \A c \in Callers :
        authStatus[c] = 200
        => /\ "health_ok" \in reported[c]
           /\ inflight[c] = "none"
           /\ authProbes[c] = 1
           /\ pc[c] \in {"idle", "auth_poll"}
           /\ outcome[c] # "crash"
           /\ (pc[c] = "idle" /\ posts[c] = 0) => outcome[c] = "ok"

\* The 200 arrived in the last iteration of the budget, after 29 iterations
\* whose unauthenticated probe failed.
C3_Witness ==
    \E c \in Callers :
        /\ authStatus[c] = 200
        /\ i[c] = ReadyBudget - 1
        /\ pc[c] = "idle"
        /\ outcome[c] = "ok"

\* C4: an authenticated probe answered 401 or 403 ends start fatally, with
\* no request to /v1/messages; the number of authenticated probes never
\* exceeds the readiness budget.
C4_RejectedKeyIsFatal ==
    \A c \in Callers :
        /\ authProbes[c] <= ReadyBudget
        /\ authStatus[c] \in {401, 403}
           => /\ pc[c] = "idle"
              /\ outcome[c] = "fatal"
              /\ "key_rejected" \in reported[c]
              /\ inflight[c] = "none"
              /\ posts[c] = 0

\* A 403 in a late iteration ended start fatally.
C4_Witness ==
    \E c \in Callers :
        /\ authStatus[c] = 403
        /\ outcome[c] = "fatal"
        /\ i[c] > 0
        /\ authProbes[c] = 1

\* C5: with a single caller, a start that is at the spawn step has removed
\* the old sentinel and has sent SIGTERM to the pid it read from it if that
\* process is running; from the spawn on, the sentinel holds exactly the pid
\* of the process this start spawned.
C5_OneTrackedHandle ==
    \A c \in Callers :
        cmd[c] = "start"
        => /\ pc[c] \in {"start_check", "spawn"}
              => /\ ~sentinel.exists
                 /\ (pidRead[c].digits /\ pidRead[c].pid \in alive)
                       => pidRead[c].pid \in signals[c]
           /\ (pc[c] \in AfterSpawn \/ (pc[c] = "idle" /\ child[c] # 0))
              => /\ sentinel = PidSentinel(child[c])
                 /\ (pidRead[c].digits /\ pidRead[c].pid \in alive
                        /\ pidRead[c].pid # child[c])
                       => pidRead[c].pid \in signals[c]

\* A restart: the old proxy was sent SIGTERM and has not exited yet, a new
\* one runs beside it, and the sentinel names the new one.
C5_Witness ==
    \E c \in Callers :
        /\ cmd[c] = "start"
        /\ child[c] \in alive
        /\ pidRead[c].digits
        /\ pidRead[c].pid \in alive
        /\ pidRead[c].pid # child[c]
        /\ signals[c] = {pidRead[c].pid}
        /\ sentinel = PidSentinel(child[c])

\* C6: when stop_litellm has finished, the sentinel is gone, whatever it
\* held: a running pid (SIGTERM delivered), a pid with no process (no error)
\* or text that is not a number (no signal).
C6_StopDeletesSentinel ==
    \A c \in Callers :
        /\ (cmd[c] = "stop" /\ pc[c] = "idle")
           => /\ ~sentinel.exists
              /\ outcome[c] = "ok"
        /\ (cmd[c] = "start" /\ pc[c] = "start_check") => ~sentinel.exists
        /\ (cmd[c] = "stop" /\ pc[c] \in {"idle", "stop_sleep"})
           => /\ signals[c] \subseteq {pidRead[c].pid}
              /\ ~pidRead[c].digits => signals[c] = {}

\* A stop that read the pid of a process that no longer exists: nothing was
\* signalled, the command returned normally and the sentinel is gone.
C6_Witness ==
    \E c \in Callers :
        /\ cmd[c] = "stop"
        /\ pc[c] = "idle"
        /\ outcome[c] = "ok"
        /\ pidRead[c].digits
        /\ signals[c] = {}
        /\ ~sentinel.exists

\* C7: a start under a proxy profile whose resolved configuration file is
\* not on disk, or whose master key is absent or blank, never gets past the
\* prerequisite tests: it ends fatally, has spawned nothing, and leaves no
\* sentinel behind.
C7_MissingPrerequisiteIsFatal ==
    \A c \in Callers :
        ( /\ cmd[c] = "start"
          /\ pc[c] # "start_load"
          /\ Profile(envVars[c]) # "gcp"
          /\ \/ ResolveConfig(envVars[c]) \notin configFiles
             \/ Strip(Get(envVars[c], "LITELLM_MASTER_KEY", "")) = "" )
        => /\ pc[c] \in BeforeSpawn \cup {"idle"}
           /\ child[c] = 0
           /\ pc[c] = "idle" => /\ outcome[c] = "fatal"
                                /\ ~sentinel.exists
                                /\ reported[c] \cap {"config_missing",
                                                     "key_missing"} # {}

\* A start under the copilot profile with a blank master key and the
\* configuration file on disk: fatal, after the stale sentinel was removed.
C7_Witness ==
    \E c \in Callers :
        /\ cmd[c] = "start"
        /\ pc[c] = "idle"
        /\ outcome[c] = "fatal"
        /\ envVars[c].PROFILE = "copilot"
        /\ envVars[c].LITELLM_MASTER_KEY = "  "
        /\ "key_missing" \in reported[c]
        /\ pidRead[c].exists
        /\ ~sentinel.exists

\* C8: in the authentication loop every request that is not answered 200 is
\* followed by another one until 300 have been issued; a 200 ends start
\* successfully at once; without a 200, start ends fatally after exactly 300
\* requests.
C8_AuthPolling ==
    \A c \in Callers :
        /\ posts[c] <= AuthBudget
        /\ pc[c] = "auth_poll" => (posts[c] = j[c] /\ ~postOk[c])
        /\ postOk[c] => /\ pc[c] = "idle"
                        /\ outcome[c] = "ok"
                        /\ "copilot_ok" \in reported[c]
                        /\ posts[c] = j[c] + 1
        /\ (pc[c] = "idle" /\ posts[c] > 0 /\ ~postOk[c])
           => /\ outcome[c] = "fatal"
              /\ posts[c] = AuthBudget
              /\ "copilot_incomplete" \in reported[c]

\* The 200 arrived on the last request of the budget, after 299 retries.
C8_Witness ==
    \E c \in Callers :
        /\ postOk[c]
        /\ j[c] = AuthBudget - 1
        /\ outcome[c] = "ok"

\* C9: a request to /v1/messages is sent only under the copilot profile and
\* only in a run whose readiness loop got an HTTP response from /health.
C9_PostOnlyAfterHealth ==
    \A c \in Callers :
        posts[c] > 0 => /\ Profile(envVars[c]) = "copilot"
                        /\ healthSeen[c]

\* Messages the readiness loop prints.
LoopMessages == {"server_up", "health_ok", "key_rejected", "health_warn",
                 "health_slow", "child_exited"}

C11_ChildExitIsFatal ==
    \A c \in Callers :
        "child_exited" \in reported[c]
        => /\ pc[c] = "idle"
           /\ outcome[c] = "fatal"
           /\ inflight[c] = "none"
           /\ authProbes[c] = 0
           /\ posts[c] = 0
           /\ readiness[c] = "pending"
           /\ child[c] \notin alive
           /\ reported[c] \cap LoopMessages = {"child_exited"}

\* The child was found exited at the start of a later iteration, after
\* unanswered probes.
C11_Witness ==
    \E c \in Callers :
        /\ "child_exited" \in reported[c]
        /\ i[c] > 1
        /\ outcome[c] = "fatal"
        /\ sentinel = PidSentinel(child[c])

\* C12: when the authenticated /health probe has ended with a status other
\* than 200, 401 and 403, or with no response at all (timeout, network
\* failure), the unauthenticated probe had been answered, a warning is
\* printed, polling has stopped and no further probe is sent, and the start
\* does not fail for it: it fails only if the copilot budget runs out later.
C12_OtherStatusIsAccepted ==
    \A c \in Callers :
        ( /\ authProbes[c] >= 1
          /\ pc[c] # "ready_auth"
          /\ authStatus[c] \notin {200, 401, 403} )
        => /\ healthSeen[c]
           /\ authProbes[c] = 1
           /\ inflight[c] = "none"
           /\ pc[c] \in {"idle", "auth_poll"}
           /\ reported[c] \cap {"health_warn", "health_slow"} # {}
           /\ "key_rejected" \notin reported[c]
           /\ outcome[c] \in {"running", "ok", "fatal"}
           /\ outcome[c] = "fatal" => "copilot_incomplete" \in reported[c]
           /\ Profile(envVars[c]) # "copilot"
              => pc[c] = "idle" /\ outcome[c] = "ok"

\* A start that returned normally although the authenticated probe was
\* answered with 500, in a later iteration.
C12_Witness ==
    \E c \in Callers :
        /\ authStatus[c] = 500
        /\ i[c] > 0
        /\ "health_warn" \in reported[c]
        /\ pc[c] = "idle"
        /\ outcome[c] = "ok"

\* The lines status can print about the proxy.
ProxyLines == {"proxy_not_used", "proxy_running", "proxy_stale",
               "proxy_not_running"}

\* C13: the step in which status under a profile other than gcp looks at
\* the proxy prints exactly one proxy line, and that line is "running"
\* exactly when the sentinel exists, its content parses as an integer and a
\* process with that pid exists; a missing sentinel, a dead pid and an
\* unparsable content are each printed as not running. No step of status
\* changes or deletes the sentinel.
C13_StatusReadsSentinel ==
    [][\A c \in Callers :
          /\ ( /\ pc[c] = "status_probe"
               /\ pc'[c] # pc[c]
               /\ StatusProfile(envVars[c]) # "gcp" )
             => /\ Cardinality(reported'[c] \cap ProxyLines) = 1
                /\ "proxy_not_used" \notin reported'[c]
                /\ "proxy_running" \in reported'[c]
                   <=> ( /\ sentinel.exists
                         /\ sentinel.digits
                         /\ sentinel.pid \in alive )
                /\ ~sentinel.exists
                   => "proxy_not_running" \in reported'[c]
                /\ outcome'[c] = "ok"
          /\ ( cmd[c] = "status" /\ pc[c] # "idle" )
             => sentinel' = sentinel /\ alive' \subseteq alive
      ]_vars

\* Status has printed "running" for the proxy an earlier start left behind.
C13_Witness ==
    \E c \in Callers :
        /\ cmd[c] = "status"
        /\ pc[c] = "idle"
        /\ "proxy_running" \in reported[c]
        /\ sentinel.exists
        /\ sentinel.pid \in alive

\* An upper bound on the steps start_litellm has left in its polling loops:
\* three per readiness iteration left, one per authentication iteration.
StepsLeft(c) ==
    CASE pc[c] = "ready_poll" -> 3 * (ReadyBudget - i[c]) + AuthBudget + 5
      [] pc[c] = "ready_unauth" -> 3 * (ReadyBudget - i[c]) + AuthBudget + 4
      [] pc[c] = "ready_auth" -> 3 * (ReadyBudget - i[c]) + AuthBudget + 3
      [] pc[c] = "auth_poll" -> AuthBudget - j[c] + 1
      [] OTHER -> 0

\* C17: every step start_litellm takes in its polling loops lowers the bound
\* StepsLeft, which is never negative, so the loops end; the readiness loop
\* runs at most ReadyBudget iterations and the copilot loop at most
\* AuthBudget iterations, sending at most one request each, and outside the
\* copilot profile no second loop runs.
C17_PollingIsBounded ==
    [][\A c \in Callers :
          /\ ( /\ pc[c] \in AfterSpawn
               /\ <<pc[c], i[c], j[c], inflight[c]>>'
                     # <<pc[c], i[c], j[c], inflight[c]>> )
             => /\ StepsLeft(c)' < StepsLeft(c)
                /\ StepsLeft(c)' >= 0
          /\ i'[c] <= ReadyBudget
          /\ j'[c] <= AuthBudget
          /\ posts'[c] <= AuthBudget
          /\ ( pc'[c] = "auth_poll" \/ j'[c] > 0 )
             => Profile(envVars'[c]) = "copilot"
      ]_vars

\* Both budgets were used up: thirty unanswered probes, then three hundred
\* chat requests that were not accepted.
C17_Witness ==
    \E c \in Callers :
        /\ readiness[c] = "exhausted"
        /\ j[c] = AuthBudget
        /\ posts[c] = AuthBudget
        /\ pc[c] = "idle"
        /\ outcome[c] = "fatal"

\* C20: after every step, a start that has failed fatally after the spawn
\* step (child exited, key rejected, copilot budget used up) has the sentinel
\* in place, recording the pid of the spawned process, dead or alive; and
\* the failing step itself sends no signal, ends no process and does not
\* touch the sentinel.
C20_FatalLeavesSentinel ==
    [][\A c \in Callers :
          ( /\ cmd'[c] = "start"
            /\ pc'[c] = "idle"
            /\ outcome'[c] = "fatal"
            /\ child'[c] # 0 )
          => /\ sentinel' = PidSentinel(child'[c])
             /\ reported'[c] \cap {"child_exited", "key_rejected",
                                   "copilot_incomplete"} # {}
             /\ pc[c] \in AfterSpawn
                => /\ signals'[c] = signals[c]
                   /\ alive' = alive
                   /\ sentinel' = sentinel
      ]_vars

\* The key was rejected: the start failed, the proxy it spawned runs on and
\* the sentinel names it.
C20_Witness ==
    \E c \in Callers :
        /\ cmd[c] = "start"
        /\ outcome[c] = "fatal"
        /\ "key_rejected" \in reported[c]
        /\ child[c] \in alive
        /\ sentinel = PidSentinel(child[c])

\* Keys only the proxy projection writes, and keys only the Vertex projection
\* writes.
ProxyOnlyKeys == {"ANTHROPIC_BASE_URL", "ANTHROPIC_AUTH_TOKEN",
                  "ANTHROPIC_DEFAULT_OPUS_MODEL",
                  "ANTHROPIC_DEFAULT_SONNET_MODEL",
                  "ANTHROPIC_DEFAULT_HAIKU_MODEL",
                  "CLAUDE_CODE_SUBAGENT_MODEL",
                  "CLAUDE_CODE_DISABLE_EXPERIMENTAL_BETAS"}
VertexOnlyKeys == {"CLAUDE_CODE_USE_VERTEX", "ANTHROPIC_VERTEX_PROJECT_ID",
                   "CLOUD_ML_REGION", "ANTHROPIC_SMALL_FAST_MODEL"}

\* C14: when a setup command has completed successfully, whatever setups ran
\* before it, the settings document is exactly {"env": projection} of the
\* env record now on disk under the profile just set up, and holds no key
\* that only the other profile's projection writes.
C14_SettingsFullyDerived ==
    \A c \in Callers :
        ( pc[c] = "idle" /\ outcome[c] = "ok" )
        => /\ cmd[c] = "setup_gcp"
              => /\ envFile.vars.PROFILE = "gcp"
                 /\ settings =
                      DocOf(build_gcp_native_settings_env(envFile.vars))
                 /\ DOMAIN settings.env \cap ProxyOnlyKeys = {}
           /\ cmd[c] = "setup_copilot"
              => /\ envFile.vars.PROFILE = "copilot"
                 /\ settings = DocOf(build_proxy_settings_env(envFile.vars))
                 /\ DOMAIN settings.env \cap VertexOnlyKeys = {}

\* setup gcp has completed on a machine where setup copilot had run before
\* and had written its settings document.
C14_Witness ==
    \E c \in Callers :
        /\ cmd[c] = "setup_gcp"
        /\ pc[c] = "idle"
        /\ outcome[c] = "ok"
        /\ envFile.vars.LITELLM_CONFIG = "config.copilot.yaml"
        /\ envFile.vars.LITELLM_MASTER_KEY \in GeneratedKeys
        /\ settings.exists

\* Positions inside start_litellm.
InStart == BeforeSpawn \cup {"spawn"} \cup AfterSpawn

\* C16: no rollback. The step in which setup gcp fails after PROFILE=gcp was
\* written (empty project id, gcloud missing, a gcloud command exiting
\* non-zero) leaves PROFILE=gcp in the env file, the sentinel removed and the
\* tracked proxy signalled, and the settings document untouched; no earlier
\* step of setup gcp touches the document either. The step in which setup
\* copilot fails inside start_litellm leaves PROFILE=copilot in the env file
\* and the proxy settings document it has written.
C16_NoRollback ==
    [][\A c \in Callers :
          /\ ( /\ cmd[c] = "setup_gcp"
               /\ pc[c] \in {"gcp_project", "gcp_auth"}
               /\ outcome'[c] \in {"fatal", "crash"} )
             => /\ envFile'.exists
                /\ envFile'.vars.PROFILE = "gcp"
                /\ ~sentinel'.exists
                /\ pidRead'[c].digits
                   => \/ pidRead'[c].pid \in signals'[c]
                      \/ pidRead'[c].pid \notin alive'
                /\ settings' = settings
          /\ ( cmd[c] = "setup_gcp" /\ pc[c] \notin {"idle", "gcp_write"} )
             => settings' = settings
          /\ ( /\ cmd[c] = "setup_copilot"
               /\ pc[c] \in InStart
               /\ outcome'[c] \in {"fatal", "crash"} )
             => /\ envFile'.exists
                /\ envFile'.vars.PROFILE = "copilot"
                /\ settings' = settings
                /\ settings' = DocOf(build_proxy_settings_env(envFile'.vars))
                /\ "ANTHROPIC_BASE_URL" \in DOMAIN settings'.env
      ]_vars

\* setup gcp has crashed on a gcloud command after an earlier setup copilot:
\* the env file says gcp, the settings document still points at the proxy.
C16_Witness ==
    \E c \in Callers :
        /\ cmd[c] = "setup_gcp"
        /\ pc[c] = "idle"
        /\ outcome[c] = "crash"
        /\ envFile.vars.PROFILE = "gcp"
        /\ ~sentinel.exists
        /\ settings.exists
        /\ "ANTHROPIC_BASE_URL" \in DOMAIN settings.env

\* C18: the proxy projection of a record is the base URL
\* "http://localhost:" followed by LITELLM_PORT, with port 4000 when the key
\* is absent; the stored LITELLM_MASTER_KEY as auth token ("" when absent);
\* and the seven fixed entries, whatever else the record holds.
C18_ProxyProjection ==
    \A c \in Callers :
        ( cmd[c] = "build_proxy_settings_env" /\ pc[c] = "idle" )
        => LET r == envVars[c]
               e == settings.env
           IN  /\ settings.exists
               /\ outcome[c] = "ok"
               /\ DOMAIN e = ProxyOnlyKeys \cup
                     {"ANTHROPIC_MODEL",
                      "CLAUDE_CODE_DISABLE_NONESSENTIAL_TRAFFIC"}
               /\ e["ANTHROPIC_BASE_URL"] =
                     CASE r["LITELLM_PORT"] = Absent -> "http://localhost:4000"
                       [] r["LITELLM_PORT"] = "" -> "http://localhost:"
                       [] r["LITELLM_PORT"] = "8080" -> "http://localhost:8080"
               /\ e["ANTHROPIC_AUTH_TOKEN"] =
                     IF r["LITELLM_MASTER_KEY"] = Absent
                        THEN "" ELSE r["LITELLM_MASTER_KEY"]
               /\ e["ANTHROPIC_MODEL"] = "sonnet"
               /\ e["ANTHROPIC_DEFAULT_OPUS_MODEL"] = "opus"
               /\ e["ANTHROPIC_DEFAULT_SONNET_MODEL"] = "sonnet"
               /\ e["ANTHROPIC_DEFAULT_HAIKU_MODEL"] = "haiku"
               /\ e["CLAUDE_CODE_SUBAGENT_MODEL"] = "sonnet"
               /\ e["CLAUDE_CODE_DISABLE_EXPERIMENTAL_BETAS"] = "1"
               /\ e["CLAUDE_CODE_DISABLE_NONESSENTIAL_TRAFFIC"] = "true"

\* The proxy projection of a record with its own port and a key with blanks
\* around it.
C18_Witness ==
    \E c \in Callers :
        /\ cmd[c] = "build_proxy_settings_env"
        /\ pc[c] = "idle"
        /\ envVars[c]["LITELLM_PORT"] = "8080"
        /\ envVars[c]["LITELLM_MASTER_KEY"] = " key1 "
        /\ settings.exists

\* C19: the Vertex projection of a record holds the record's GCP_PROJECT_ID
\* ("" when it is absent or empty, which only prints a warning), the
\* record's CLOUD_ML_REGION or "global" when that is absent, ANTHROPIC_MODEL
\* and ANTHROPIC_SMALL_FAST_MODEL exactly when the record's value is not
\* empty, and never ANTHROPIC_BASE_URL or ANTHROPIC_AUTH_TOKEN.
C19_VertexProjection ==
    \A c \in Callers :
        ( cmd[c] = "build_gcp_native_settings_env" /\ pc[c] = "idle" )
        => LET r == envVars[c]
               e == settings.env
               Set(key) == r[key] \notin {Absent, ""}
           IN  /\ settings.exists
               /\ outcome[c] = "ok"
               /\ e["CLAUDE_CODE_USE_VERTEX"] = "1"
               /\ e["CLAUDE_CODE_DISABLE_NONESSENTIAL_TRAFFIC"] = "true"
               /\ e["ANTHROPIC_VERTEX_PROJECT_ID"] =
                     IF Set("GCP_PROJECT_ID") THEN r["GCP_PROJECT_ID"] ELSE ""
               /\ ~Set("GCP_PROJECT_ID") <=> "project_missing" \in reported[c]
               /\ e["CLOUD_ML_REGION"] =
                     IF r["CLOUD_ML_REGION"] = Absent
                        THEN "global" ELSE r["CLOUD_ML_REGION"]
               /\ "ANTHROPIC_MODEL" \in DOMAIN e <=> Set("ANTHROPIC_MODEL")
               /\ Set("ANTHROPIC_MODEL")
                  => e["ANTHROPIC_MODEL"] = r["ANTHROPIC_MODEL"]
               /\ "ANTHROPIC_SMALL_FAST_MODEL" \in DOMAIN e
                  <=> Set("ANTHROPIC_SMALL_FAST_MODEL")
               /\ Set("ANTHROPIC_SMALL_FAST_MODEL")
                  => e["ANTHROPIC_SMALL_FAST_MODEL"]
                        = r["ANTHROPIC_SMALL_FAST_MODEL"]
               /\ DOMAIN e \cap ProxyOnlyKeys = {}
               /\ DOMAIN e \subseteq VertexOnlyKeys \cup
                     {"ANTHROPIC_MODEL",
                      "CLAUDE_CODE_DISABLE_NONESSENTIAL_TRAFFIC"}

\* The Vertex projection of a record with no project id, an empty model and
\* a small fast model.
C19_Witness ==
    \E c \in Callers :
        /\ cmd[c] = "build_gcp_native_settings_env"
        /\ pc[c] = "idle"
        /\ envVars[c]["GCP_PROJECT_ID"] = Absent
        /\ envVars[c]["ANTHROPIC_MODEL"] = ""
        /\ envVars[c]["ANTHROPIC_SMALL_FAST_MODEL"] = "claude-haiku"
        /\ "project_missing" \in reported[c]
        /\ settings.exists

\* C15: with two callers running start and no lock, whenever both are past
\* their spawn step they have spawned two different processes and the
\* sentinel records exactly one of the two pids, the one written last: the
\* other caller's pid was overwritten (or its sentinel removed by the later
\* caller's stop step) and no sentinel tracks its process. The witness is the
\* interleaving of the claim.
C15_LastWriterIsTracked ==
    \A c, d \in Callers :
        ( /\ c # d
          /\ pc[c] \in AfterSpawn
          /\ pc[d] \in AfterSpawn )
        => /\ child[c] # child[d]
           /\ sentinel \in {PidSentinel(child[c]), PidSentinel(child[d])}

\* Both callers found no sentinel in their stop step and sent no signal, each
\* has spawned a proxy, both proxies are alive, and the sentinel holds the
\* pid of caller 2's proxy only.
C15_Witness ==
    /\ pc[1] \in AfterSpawn
    /\ pc[2] \in AfterSpawn
    /\ "not_running" \in reported[1] \cap reported[2]
    /\ signals[1] = {}
    /\ signals[2] = {}
    /\ child[1] # child[2]
    /\ {child[1], child[2]} \subseteq alive
    /\ sentinel = PidSentinel(child[2])
    /\ sentinel # PidSentinel(child[1])

\* A stored LITELLM_MASTER_KEY value that is a real key: present, not blank
\* and not the placeholder of the sample file.
IsRealKey(value) ==
    value \notin {Absent, "", "  ", "your-litellm-master-key"}

\* C21: across any sequence of setup, start, stop and status commands, no
\* step changes a real LITELLM_MASTER_KEY in the env file, and the key only
\* ever changes in ensure_master_key; ensure_master_key keeps a real key and
\* replaces an absent, blank or placeholder one by a generated key; and from
\* the settings write of setup copilot on, through the start_litellm that
\* follows, the document's ANTHROPIC_AUTH_TOKEN equals the env file's
\* LITELLM_MASTER_KEY, which is a real key.
C21_MasterKeyIsStable ==
    [][/\ ( envFile.exists /\ IsRealKey(envFile.vars.LITELLM_MASTER_KEY) )
          => /\ envFile'.exists
             /\ envFile'.vars.LITELLM_MASTER_KEY
                   = envFile.vars.LITELLM_MASTER_KEY
       /\ ( /\ envFile.exists
            /\ envFile'.vars.LITELLM_MASTER_KEY
                  # envFile.vars.LITELLM_MASTER_KEY )
          => \E c \in Callers : pc[c] = "copilot_key"
       /\ \A c \in Callers :
             /\ ( pc[c] = "copilot_key" /\ pc'[c] = "copilot_write" )
                => LET stored == envFile.vars.LITELLM_MASTER_KEY
                       now == envFile'.vars.LITELLM_MASTER_KEY
                   IN  /\ envFile.exists
                       /\ IsRealKey(stored) => now = stored
                       /\ ~IsRealKey(stored) => now \in GeneratedKeys
                       /\ IsRealKey(now)
             /\ ( cmd'[c] = "setup_copilot" /\ pc'[c] \in InStart )
                => /\ settings'.exists
                   /\ envFile'.exists
                   /\ settings'.env["ANTHROPIC_AUTH_TOKEN"]
                         = envFile'.vars.LITELLM_MASTER_KEY
                   /\ IsRealKey(envFile'.vars.LITELLM_MASTER_KEY)
      ]_vars

\* setup copilot has completed on an env file that held a real key: the key
\* is still there and is the document's auth token.
C21_Witness ==
    \E c \in Callers :
        /\ cmd[c] = "setup_copilot"
        /\ pc[c] = "idle"
        /\ outcome[c] = "ok"
        /\ envFile.vars.LITELLM_MASTER_KEY = " key1 "
        /\ settings.exists
        /\ settings.env["ANTHROPIC_AUTH_TOKEN"] = " key1 "

====
